---- MODULE Spec2Model ----
(***************************************************************************)
(* The six request handlers of Compatify-Tools (serverless functions that  *)
(* relay a prompt to the Gemini API), as one state machine.                *)
(*                                                                         *)
(*   proxy_a       src/api/proxy.js:12-70     (request.json(), contents)   *)
(*   proxy_b       src/api/proxy.js:83-157    (req.body, contents)         *)
(*   check_compat  src/api/check-compatibility.js:8-77 (device1, device2)  *)
(*   part0         src/unnamed/part_000:5-80  (headers.get, prompt)        *)
(*   part1_a       src/unnamed/part_001:3-49  (raw body pass-through)      *)
(*   part1_b       src/unnamed/part_001:53-103 (OPTIONS, SDK client)       *)
(*                                                                         *)
(* A deployment fixes the handler and the process environment; the         *)
(* dispatcher then delivers one request at a time.  A handler runs from    *)
(* its entry to its one suspension on the upstream call (or to a response),*)
(* and from the upstream outcome to its end.                               *)
(***************************************************************************)
EXTENDS Naturals, Sequences, FiniteSets, TLC

VARIABLES
    variant,    \* which handler file is deployed
    apiKey,     \* process.env.VITE_API_KEY / GEMINI_API_KEY
    pc,         \* "idle" | "running" | "awaitUpstream" | "done"
    req,        \* the request the dispatcher delivered
    calls,      \* upstream network calls issued by this invocation
    upstream,   \* the outcome of the upstream call
    responses,  \* terminal responses written: <<[status, body]>>
    resHeaders, \* response headers set with res.setHeader
    log,        \* console.log / console.error lines of this invocation
    escaped     \* an exception left the handler uncaught

vars == <<variant, apiKey, pc, req, calls, upstream, responses,
          resHeaders, log, escaped>>

----------------------------------------------------------------------------
(* JavaScript values.  A string carries where its text comes from (src) and *)
(* whether the credential is part of it (secret).                           *)

Undef == [t |-> "undef"]
Null == [t |-> "null"]
Bool(b) == [t |-> "bool", b |-> b]
Num(n) == [t |-> "num", n |-> n]
StrFrom(s, src, secret) == [t |-> "str", v |-> s, src |-> src, secret |-> secret]
Str(s) == StrFrom(s, "lit", FALSE)
Arr(seq) == [t |-> "arr", e |-> seq]
Obj(rec) == [t |-> "obj", f |-> rec]
EmptyObj == Obj([k \in {} |-> Undef])
\* An Error object: its name and its message (error.message).
Exc(name, msg) == [t |-> "exc", name |-> name, msg |-> msg]

\* x == null (undefined or null): property access on it throws a TypeError.
Nullish(v) == v.t \in {"undef", "null"}

\* A test for undefined and null only (v == null), which lets "" through.
Falsy_nullOnly(v) == Nullish(v)

\* !v
Falsy(v) ==
    \/ Nullish(v)
    \/ (v.t = "str" /\ v.v = "")
    \/ (v.t = "bool" /\ ~v.b)

\* Array.isArray(v)
IsArray(v) == v.t = "arr"

\* v[k] / v.k for a v that is not nullish: a missing property is undefined.
Get(v, k) ==
    IF v.t = "obj" /\ k \in DOMAIN v.f THEN v.f[k] ELSE Undef

\* v[0] for a v that is not nullish.
Idx0(v) ==
    CASE v.t = "arr" -> IF Len(v.e) > 0 THEN v.e[1] ELSE Undef
      [] v.t = "str" -> IF v.v # "" THEN StrFrom("c", v.src, v.secret) ELSE Undef
      [] OTHER -> Undef

\* v?.k
OptGet(v, k) == IF Nullish(v) THEN Undef ELSE Get(v, k)

\* v?.[0]
OptIdx0(v) == IF Nullish(v) THEN Undef ELSE Idx0(v)

\* The chain without its content step: candidates[0].parts[0].text.
ExtractText_skipContent(result) ==
    OptGet(OptIdx0(OptGet(OptIdx0(OptGet(result, "candidates")), "parts")), "text")

\* result?.candidates?.[0]?.content?.parts?.[0]?.text
ExtractText(result) ==
    OptGet(OptIdx0(OptGet(OptGet(OptIdx0(OptGet(result, "candidates")),
                                 "content"), "parts")), "text")

\* Whether the credential is part of a value (a string, or nested in a body).
RECURSIVE HasSecret(_)
HasSecret(v) ==
    CASE v.t = "str" -> v.secret
      [] v.t = "exc" -> HasSecret(v.msg)
      [] v.t = "arr" -> \E i \in 1..Len(v.e) : HasSecret(v.e[i])
      [] v.t = "obj" -> \E k \in DOMAIN v.f : HasSecret(v.f[k])
      [] OTHER -> FALSE

\* Whether text of a caught exception is part of a value.
RECURSIVE HasExcText(_)
HasExcText(v) ==
    CASE v.t = "str" -> v.src = "exception"
      [] v.t = "exc" -> TRUE
      [] v.t = "arr" -> \E i \in 1..Len(v.e) : HasExcText(v.e[i])
      [] v.t = "obj" -> \E k \in DOMAIN v.f : HasExcText(v.f[k])
      [] OTHER -> FALSE

----------------------------------------------------------------------------
(* The environment: deployments, requests and upstream outcomes.            *)

Variants == {"proxy_a", "proxy_b", "check_compat", "part0", "part1_a", "part1_b"}

\* The handlers that import node-fetch (check-compatibility.js:6, part_001:1);
\* the others call the runtime's fetch or the SDK client.
NodeFetchVariants == {"check_compat", "part1_a"}

\* process.env.<KEY>: unset, set to the empty string, or set.
ApiKeys == << Undef, StrFrom("", "env", TRUE), StrFrom("AIza-key", "env", TRUE) >>

Methods == {"POST", "GET", "PUT", "OPTIONS"}

RStr(s) == StrFrom(s, "request", FALSE)

Part(text) == Obj([text |-> text])
Content(parts) == Obj([parts |-> parts])
WithContents(c) == Obj([contents |-> c])

\* Request bodies: absent, null, not an object, and the three input shapes
\* (prompt, device1 + device2, contents) well-formed and malformed.
Bodies == <<
    Undef,
    Null,
    EmptyObj,
    RStr("plain text"),
    Obj([prompt |-> RStr("Is A compatible with B?")]),
    Obj([prompt |-> RStr("")]),
    Obj([device1 |-> RStr("USB-C charger"), device2 |-> RStr("Lightning cable")]),
    Obj([device1 |-> RStr("USB-C charger")]),
    WithContents(RStr("text")),
    WithContents(EmptyObj),
    WithContents(Arr(<<>>)),
    WithContents(Arr(<<Null>>)),
    WithContents(Arr(<<EmptyObj>>)),
    WithContents(Arr(<<Content(Arr(<<>>))>>)),
    WithContents(Arr(<<Content(Arr(<<Part(RStr(""))>>))>>)),
    WithContents(Arr(<<Content(Arr(<<Part(RStr("hi"))>>))>>)) >>

\* The content-type header: missing, JSON, or something else.
ContentTypes == << Null, RStr("application/json"), RStr("text/plain") >>

\* A request as the dispatcher hands it over.  headersGet: request.headers has
\* a get() method (a Web Headers object, not a plain header map).  jsonOk:
\* request.json() is callable and the body text parses.
Requests ==
    { [method |-> m, headersGet |-> hg, contentType |-> ContentTypes[c],
       jsonOk |-> jo, body |-> Bodies[b]] :
        m \in Methods, hg \in BOOLEAN, c \in 1..Len(ContentTypes),
        jo \in BOOLEAN, b \in 1..Len(Bodies) }

NoRequest == [method |-> "", headersGet |-> FALSE, contentType |-> Null,
              jsonOk |-> FALSE, body |-> Undef]

UStr(s) == StrFrom(s, "upstream", FALSE)

\* { candidates: [{ content: { parts: [{ text }] } }] }
Candidates(text) ==
    Obj([candidates |-> Arr(<<Obj([content |-> Content(Arr(<<Part(text)>>))])>>)])

Http(status, statusText, isJson, json, text) ==
    [kind |-> "http", status |-> status, statusText |-> UStr(statusText),
     isJson |-> isJson, json |-> json, text |-> UStr(text)]

\* Upstream outcomes: a success with text, successes without usable text,
\* a body that is not JSON, error statuses with and without a JSON body, and a
\* transport failure.
Upstreams == <<
    Http(200, "OK", TRUE, Candidates(UStr("X")), "{candidates X}"),
    Http(200, "OK", TRUE, Candidates(UStr("Y")), "{candidates Y}"),
    Http(200, "OK", TRUE, Candidates(UStr("")), "{candidates empty}"),
    Http(200, "OK", TRUE, EmptyObj, "{}"),
    Http(200, "OK", TRUE, Obj([candidates |-> Arr(<<>>)]), "{candidates []}"),
    Http(200, "OK", TRUE, Null, "null"),
    Http(200, "OK", FALSE, Undef, "<html>"),
    Http(429, "Too Many Requests", TRUE,
         Obj([error |-> UStr("rate limited")]), "{error rate limited}"),
    Http(429, "", TRUE, EmptyObj, "{}"),
    Http(503, "Service Unavailable", FALSE, Undef, "upstream unavailable"),
    Http(500, "Internal Server Error", FALSE, Undef, ""),
    [kind |-> "fail"] >>

NoUpstream == [kind |-> "none"]

\* response.ok
Ok(u) == u.status >= 200 /\ u.status <= 299

----------------------------------------------------------------------------
(* What a stretch of handler code leaves behind.                            *)

Line(lvl, text, arg) == [lvl |-> lvl, text |-> text, arg |-> arg]
Response(status, body) == [status |-> status, body |-> body]

\* return res.status(s).json(body)
Respond(status, body, lg) ==
    [pc |-> "done", responses |-> <<Response(status, body)>>, log |-> lg,
     calls |-> <<>>, escaped |-> FALSE]

\* await fetch(url, { body }): the handler is suspended on the upstream call.
Suspend(url, body, lg) ==
    [pc |-> "awaitUpstream", responses |-> <<>>, log |-> lg,
     calls |-> <<[url |-> url, body |-> body]>>, escaped |-> FALSE]

\* An exception thrown outside every try block.
Escape(lg) ==
    [pc |-> "done", responses |-> <<>>, log |-> lg, calls |-> <<>>,
     escaped |-> TRUE]

\* `...generateContent?key=${apiKey}`
ApiUrl(key) == StrFrom("generateContent?key=${apiKey}", "lit", HasSecret(key))

\* The errors of the runtime and of node-fetch.  node-fetch puts the request
\* URL into the message of a failed request ("request to <url> failed") and of
\* a body that is not JSON ("invalid json response body at <url>").
TypeError(msg) == Exc("TypeError", StrFrom(msg, "exception", FALSE))
SyntaxError(msg) == Exc("SyntaxError", StrFrom(msg, "exception", FALSE))
NodeFetchError(msg, url) == Exc("FetchError", StrFrom(msg, "exception", url.secret))

\* await request.json(): the parsed body, or the exception thrown when json is
\* not a function of the request or the body text is not JSON (an absent body
\* is no JSON text).
RequestJson(r) ==
    IF r.jsonOk /\ r.body.t # "undef"
    THEN [ok |-> TRUE, val |-> r.body]
    ELSE [ok |-> FALSE, exc |-> SyntaxError("request.json() failed")]

\* The TypeError of reading a property of undefined or null.
NullAccess == TypeError("Cannot read properties of undefined")

\* error of `await fetch(...)` on a transport failure, by fetch implementation.
FetchFailed(v, url) ==
    IF v \in NodeFetchVariants
    THEN NodeFetchError("request to ${url} failed", url)
    ELSE TypeError("fetch failed")

\* error of `await response.json()` on a body that is not JSON.
BodyNotJson(v, url) ==
    IF v \in NodeFetchVariants
    THEN NodeFetchError("invalid json response body at ${url}", url)
    ELSE SyntaxError("Unexpected token in JSON")

----------------------------------------------------------------------------
(* src/api/proxy.js:29 and :105, the check of `contents`, left to right:    *)
(*   !contents || !Array.isArray(contents) || contents.length === 0         *)
(*     || !contents[0].parts || !contents[0].parts[0].text                  *)
(* "reject": the condition is true; "pass": it is false; "throw": evaluating *)
(* it reads a property of undefined or null.                                *)

ContentsCheck(contents) ==
    IF Falsy(contents) \/ ~IsArray(contents) \/ Len(contents.e) = 0
    THEN "reject"
    ELSE LET c0 == Idx0(contents) IN
         IF Nullish(c0) THEN "throw"
         ELSE LET parts == Get(c0, "parts") IN
              IF Falsy(parts) THEN "reject"
              ELSE LET p0 == Idx0(parts) IN
                   IF Nullish(p0) THEN "throw"
                   ELSE IF Falsy(Get(p0, "text")) THEN "reject" ELSE "pass"

\* text || 'No content found.'
OrDefault(text, dflt) == IF Falsy(text) THEN dflt ELSE text

----------------------------------------------------------------------------
(* src/api/proxy.js:12-70, the first handler of the file.                   *)

\* catch (error) { console.error('Proxy Error:', error); 500 }
ProxyA_catch(error, lg) ==
    Respond(500, Obj([error |-> Str("An internal server error occurred.")]),
            lg \o <<Line("error", Str("Proxy Error:"), error)>>)

\* Lines 14-48: to the await of fetch, or to a response.
ProxyA_entry(r, key) ==
    IF r.method # "POST"
    THEN Respond(405, Obj([error |-> Str("Method not allowed. Use POST.")]), <<>>)
    ELSE LET parsed == RequestJson(r) IN
         IF ~parsed.ok THEN ProxyA_catch(parsed.exc, <<>>)
         ELSE IF Nullish(parsed.val) THEN ProxyA_catch(NullAccess, <<>>)
         ELSE LET contents == Get(parsed.val, "contents") IN
              IF Falsy(key)
              THEN Respond(500, Obj([error |-> Str("API key is not configured. Please set the VITE_API_KEY environment variable in Vercel.")]), <<>>)
              ELSE LET chk == ContentsCheck(contents) IN
                   CASE chk = "reject" ->
                          Respond(400, Obj([error |-> Str("Request body must contain a valid \"contents\" field with a text part.")]), <<>>)
                     [] chk = "throw" -> ProxyA_catch(NullAccess, <<>>)
                     [] OTHER ->
                          Suspend(ApiUrl(key), Obj([contents |-> contents]), <<>>)

\* Lines 42-69: from the outcome of fetch to the end.
ProxyA_resume(u, url) ==
    IF u.kind = "fail" THEN ProxyA_catch(FetchFailed("proxy_a", url), <<>>)
    ELSE IF ~Ok(u)
    THEN Respond(u.status,
                 Obj([error |-> StrFrom("Gemini API responded with an error: ${statusText}", "upstream", FALSE)]),
                 <<Line("error", Str("Gemini API Error:"), Arr(<<Num(u.status), u.text>>))>>)
    ELSE IF ~u.isJson THEN ProxyA_catch(BodyNotJson("proxy_a", url), <<>>)
    ELSE Respond(200,
                 Obj([content |-> OrDefault(ExtractText(u.json), Str("No content found."))]),
                 <<>>)

----------------------------------------------------------------------------
(* src/api/proxy.js:83-157, the second handler of the file.                 *)

\* catch (error) { console.error(..., error); 500 with details: error.message }
ProxyB_catch(error, lg) ==
    Respond(500, Obj([error |-> Str("An internal server error occurred."),
                      details |-> error.msg]),
            lg \o <<Line("error", Str("An unexpected error occurred in the proxy function:"), error)>>)

\* Lines 85-131.
ProxyB_entry(r, key) ==
    IF r.method # "POST"
    THEN Respond(405, Obj([error |-> Str("Method not allowed. Use POST.")]), <<>>)
    ELSE LET lg0 == << Line("log", Str("--- New Proxy Request ---"), Undef),
                       Line("log", Str("API Key Status:"),
                            IF Falsy(key) THEN Str("Missing") ELSE Str("Present")) >>
         IN
         IF Falsy(key)
         THEN Respond(500, Obj([error |-> Str("Server configuration error: API key is not set. Please check the VITE_API_KEY environment variable in Vercel.")]),
                      lg0 \o <<Line("error", Str("API key is missing."), Undef)>>)
         ELSE LET requestData == r.body
                  chk == IF Falsy(requestData) THEN "reject"
                         ELSE ContentsCheck(Get(requestData, "contents"))
              IN
              CASE chk = "reject" ->
                     Respond(400, Obj([error |-> Str("Request body must contain a valid \"contents\" array.")]),
                             lg0 \o <<Line("error", Str("Invalid request body received. Expected \"contents\" array."), Undef)>>)
                [] chk = "throw" -> ProxyB_catch(NullAccess, lg0)
                [] OTHER ->
                     LET payload == Obj([contents |-> Get(requestData, "contents")]) IN
                     Suspend(ApiUrl(key), payload,
                             lg0 \o <<Line("log", Str("Sending payload to Gemini API:"),
                                           RStr("JSON.stringify(payload)"))>>)

\* Lines 125-156.
ProxyB_resume(u, url) ==
    IF u.kind = "fail" THEN ProxyB_catch(FetchFailed("proxy_b", url), <<>>)
    ELSE IF ~Ok(u)
    THEN Respond(u.status,
                 Obj([error |-> StrFrom("Gemini API responded with an error: ${statusText}", "upstream", FALSE),
                      details |-> u.text]),
                 <<Line("error", Str("Gemini API Error:"), Arr(<<Num(u.status), u.text>>))>>)
    ELSE IF ~u.isJson THEN ProxyB_catch(BodyNotJson("proxy_b", url), <<>>)
    ELSE Respond(200,
                 Obj([content |-> OrDefault(ExtractText(u.json), Str("No content found."))]),
                 <<Line("log", Str("Successfully received response from Gemini API."), Undef)>>)

----------------------------------------------------------------------------
(* src/api/check-compatibility.js:8-77.                                     *)

\* catch (error) { console.error('API Error:', error); 500 }
CheckCompat_catch(error, lg) ==
    Respond(500, Obj([success |-> Bool(FALSE),
                      error |-> Str("An internal server error occurred.")]),
            lg \o <<Line("error", Str("API Error:"), error)>>)

\* Line 34: the prompt built from the two device names.
ComparePrompt(device1, device2) ==
    [t |-> "str", v |-> "Compare the compatibility of ${device1} with ${device2}.",
     src |-> "request", secret |-> FALSE, device1 |-> device1, device2 |-> device2]

\* Lines 12-56.
CheckCompat_entry(r, key) ==
    IF r.method # "POST"
    THEN Respond(405, Str("Method Not Allowed"), <<>>)
    ELSE IF Falsy(key)
    THEN Respond(500, Obj([error |-> Str("Gemini API key is not configured.")]), <<>>)
    ELSE IF Nullish(r.body) THEN CheckCompat_catch(NullAccess, <<>>)
    ELSE LET device1 == Get(r.body, "device1")
             device2 == Get(r.body, "device2")
         IN
         IF Falsy(device1) \/ Falsy(device2)
         THEN Respond(400, Obj([error |-> Str("Missing device information in request body.")]), <<>>)
         ELSE Suspend(ApiUrl(key),
                      Obj([contents |-> Arr(<<Obj([role |-> Str("user"),
                                                   parts |-> Arr(<<Part(ComparePrompt(device1, device2))>>)])>>)]),
                      <<>>)

\* Lines 50-76: response.ok is never read; the body is parsed whatever the status.
CheckCompat_resume(u, url) ==
    IF u.kind = "fail" THEN CheckCompat_catch(FetchFailed("check_compat", url), <<>>)
    ELSE IF ~u.isJson THEN CheckCompat_catch(BodyNotJson("check_compat", url), <<>>)
    ELSE LET generatedText == ExtractText(u.json) IN
         IF ~Falsy(generatedText)
         THEN Respond(200, Obj([success |-> Bool(TRUE), analysis |-> generatedText]), <<>>)
         ELSE Respond(500, Obj([success |-> Bool(FALSE),
                                error |-> Str("Failed to generate compatibility analysis from API.")]),
                      <<>>)

----------------------------------------------------------------------------
(* src/unnamed/part_000:5-80.                                               *)

\* contentType.includes('application/json')
IncludesJson(contentType) ==
    contentType.t = "str" /\ contentType.v = "application/json"

\* Lines 6-7.
Part0_begin ==
    << Line("log", Str("--- New Request ---"), Undef),
       Line("log", RStr("Received request method: ${request.method}"), Undef) >>

\* catch (parseError): lines 31-34.
Part0_parseCatch(parseError, lg) ==
    Respond(400, Obj([error |-> Str("Bad Request: Invalid JSON body")]),
            lg \o <<Line("error", Str("Bad Request: Failed to parse JSON body."), parseError)>>)

\* catch (error): lines 76-79.
Part0_catch(error, lg) ==
    Respond(500, Obj([error |-> Str("Failed to get a response from Gemini API"),
                      details |-> error.msg]),
            lg \o <<Line("error", Str("Unhandled error during API proxy:"), error)>>)

\* Lines 6-60.  Line 16 reads the header outside every try block.
Part0_entry(r, key) ==
    IF r.method # "POST"
    THEN Respond(405, Obj([error |-> Str("Method Not Allowed")]),
                 Part0_begin \o <<Line("error", Str("Method Not Allowed: Received a non-POST request."), Undef)>>)
    ELSE IF ~r.headersGet THEN Escape(Part0_begin)
    ELSE IF Falsy(r.contentType) \/ ~IncludesJson(r.contentType)
    THEN Respond(400, Obj([error |-> Str("Bad Request: Content-Type must be application/json")]),
                 Part0_begin \o <<Line("error", Str("Bad Request: Invalid or missing Content-Type header."), Undef)>>)
    ELSE LET parsed == RequestJson(r) IN
         IF ~parsed.ok THEN Part0_parseCatch(parsed.exc, Part0_begin)
         ELSE IF Nullish(parsed.val) THEN Part0_parseCatch(NullAccess, Part0_begin)
         ELSE LET prompt == Get(parsed.val, "prompt") IN
              IF Falsy(prompt)
              THEN Respond(400, Obj([error |-> Str("Missing prompt in request body")]),
                           Part0_begin \o <<Line("error", Str("Bad Request: Missing \"prompt\" field in request body."), Undef)>>)
              ELSE LET lg1 == Part0_begin \o <<Line("log", Str("Successfully parsed request body. Prompt received."), Undef)>> IN
                   IF Falsy(key)
                   THEN Respond(500, Obj([error |-> Str("API key is not configured on the server.")]),
                                lg1 \o <<Line("error", Str("Internal Server Error: VITE_API_KEY environment variable is not set."), Undef)>>)
                   ELSE Suspend(ApiUrl(key),
                                Obj([contents |-> Arr(<<Content(Arr(<<Part(prompt)>>))>>)]),
                                lg1 \o << Line("log", Str("Successfully retrieved VITE_API_KEY from environment variables."), Undef),
                                          Line("log", Str("Attempting to fetch from Gemini API..."), Undef) >>)

\* Lines 48-79: the upstream body is passed on as it is.
Part0_resume(u, url) ==
    IF u.kind = "fail" THEN Part0_catch(FetchFailed("part0", url), <<>>)
    ELSE LET lg0 == <<Line("log", Str("Gemini API Response Status: ${geminiResponse.status}"), Num(u.status))>> IN
         IF ~Ok(u)
         THEN Respond(u.status,
                      Obj([error |-> Str("Gemini API responded with an error."),
                           details |-> u.text]),
                      lg0 \o <<Line("error", Str("Error from Gemini API: Status ${status}. Body: ${errorText}"), u.text)>>)
         ELSE IF ~u.isJson THEN Part0_catch(BodyNotJson("part0", url), lg0)
         ELSE Respond(200, u.json,
                      lg0 \o <<Line("log", Str("Successfully proxied response from Gemini API. End of request."), Undef)>>)

----------------------------------------------------------------------------
(* src/unnamed/part_001:3-49, the first handler of the file.                *)

\* catch (error): lines 45-48.
Part1A_catch(error, lg) ==
    Respond(500, Obj([error |-> Str("Internal Server Error")]),
            lg \o <<Line("error", Str("Error in proxy handler:"), error)>>)

\* Lines 5-34: the key is checked before the method; any truthy body is sent on.
Part1A_entry(r, key) ==
    IF Falsy(key)
    THEN Respond(500, Obj([error |-> Str("API key not configured")]),
                 <<Line("error", Str("VITE_API_KEY environment variable is not set."), Undef)>>)
    ELSE IF r.method # "POST"
    THEN Respond(405, Obj([error |-> Str("Method Not Allowed")]), <<>>)
    ELSE IF Falsy(r.body)
    THEN Respond(400, Obj([error |-> Str("Request body is missing")]), <<>>)
    ELSE Suspend(ApiUrl(key), r.body, <<>>)

\* Lines 28-48: the body is parsed before the status is looked at.
Part1A_resume(u, url) ==
    IF u.kind = "fail" THEN Part1A_catch(FetchFailed("part1_a", url), <<>>)
    ELSE IF ~u.isJson THEN Part1A_catch(BodyNotJson("part1_a", url), <<>>)
    ELSE IF ~Ok(u)
    THEN Respond(u.status, u.json,
                 <<Line("error", Str("Error from Gemini API:"), u.json)>>)
    ELSE Respond(200, u.json, <<>>)

----------------------------------------------------------------------------
(* src/unnamed/part_001:53-103, the second handler of the file.  The call   *)
(* goes through the @google/generative-ai client: generateContent rejects   *)
(* on a transport failure, on an error status and on a body that is not     *)
(* JSON; response.text() gives the first candidate's text.                  *)

\* Lines 56-58.
CorsHeaders == {"Access-Control-Allow-Origin", "Access-Control-Allow-Methods",
                "Access-Control-Allow-Headers"}

\* catch (error): lines 99-102.
Part1B_catch(error, lg) ==
    Respond(500, Obj([error |-> Str("Internal Server Error")]),
            lg \o <<Line("error", Str("API Error:"), error)>>)

\* Lines 61-94.
Part1B_entry(r, key) ==
    IF r.method = "OPTIONS" THEN Respond(200, Undef, <<>>)
    ELSE IF r.method # "POST"
    THEN Respond(405, Obj([error |-> Str("Method Not Allowed")]), <<>>)
    ELSE IF Falsy(key)
    THEN Respond(500, Obj([error |-> Str("API key not configured.")]), <<>>)
    ELSE IF Nullish(r.body) THEN Part1B_catch(NullAccess, <<>>)
    ELSE LET prompt == Get(r.body, "prompt") IN
         IF Falsy(prompt)
         THEN Respond(400, Obj([error |-> Str("Prompt is required in the request body.")]), <<>>)
         ELSE Suspend(ApiUrl(key), prompt, <<>>)

\* Lines 94-102.  urlInError: the client's error message names the request
\* URL with its key parameter; emptyText: for a 2xx body without a candidate
\* text, text() gives "" instead of throwing.  Both depend on the client
\* library's version.
Part1B_resume(u, url, urlInError, emptyText) ==
    LET sdkError == Exc("GoogleGenerativeAIError",
                        StrFrom("[GoogleGenerativeAI Error]: Error fetching from ${url}",
                                "exception", urlInError /\ url.secret))
    IN
    IF u.kind = "fail" \/ ~Ok(u) \/ ~u.isJson THEN Part1B_catch(sdkError, <<>>)
    ELSE LET text == ExtractText(u.json) IN
         IF text.t = "str" THEN Respond(200, Obj([text |-> text]), <<>>)
         ELSE IF emptyText THEN Respond(200, Obj([text |-> Str("")]), <<>>)
         ELSE Part1B_catch(TypeError("Cannot read properties of undefined"), <<>>)

----------------------------------------------------------------------------
(* The state machine.                                                       *)

Init ==
    /\ variant \in Variants
    /\ apiKey \in {ApiKeys[i] : i \in 1..Len(ApiKeys)}
    /\ pc = "idle"
    /\ req = NoRequest
    /\ calls = <<>>
    /\ upstream = NoUpstream
    /\ responses = <<>>
    /\ resHeaders = {}
    /\ log = <<>>
    /\ escaped = FALSE

\* The dispatcher invokes the handler with a request.
Dispatch(r) ==
    /\ pc = "idle"
    /\ pc' = "running"
    /\ req' = r
    /\ UNCHANGED <<variant, apiKey, calls, upstream, responses, resHeaders, log, escaped>>

\* The effect of a stretch of handler code on the invocation's state.
Apply(o) ==
    /\ pc' = o.pc
    /\ responses' = responses \o o.responses
    /\ log' = log \o o.log
    /\ calls' = calls \o o.calls
    /\ escaped' = o.escaped

ProxyA_Handler ==
    /\ pc = "running" /\ variant = "proxy_a"
    /\ Apply(ProxyA_entry(req, apiKey))
    /\ UNCHANGED <<variant, apiKey, req, upstream, resHeaders>>

ProxyB_Handler ==
    /\ pc = "running" /\ variant = "proxy_b"
    /\ Apply(ProxyB_entry(req, apiKey))
    /\ UNCHANGED <<variant, apiKey, req, upstream, resHeaders>>

CheckCompat_Handler ==
    /\ pc = "running" /\ variant = "check_compat"
    /\ Apply(CheckCompat_entry(req, apiKey))
    /\ UNCHANGED <<variant, apiKey, req, upstream, resHeaders>>

Part0_Handler ==
    /\ pc = "running" /\ variant = "part0"
    /\ Apply(Part0_entry(req, apiKey))
    /\ UNCHANGED <<variant, apiKey, req, upstream, resHeaders>>

Part1A_Handler ==
    /\ pc = "running" /\ variant = "part1_a"
    /\ Apply(Part1A_entry(req, apiKey))
    /\ UNCHANGED <<variant, apiKey, req, upstream, resHeaders>>

\* part_001:56-58 sets the cross-origin headers before anything else.
Part1B_Handler ==
    /\ pc = "running" /\ variant = "part1_b"
    /\ resHeaders' = CorsHeaders
    /\ Apply(Part1B_entry(req, apiKey))
    /\ UNCHANGED <<variant, apiKey, req, upstream>>

\* The upstream call settles: a response arrives or the transport fails.
UpstreamSettles(u) ==
    /\ pc = "awaitUpstream"
    /\ pc' = "resumed"
    /\ upstream' = u
    /\ UNCHANGED <<variant, apiKey, req, calls, responses, resHeaders, log, escaped>>

ProxyA_Resume ==
    /\ pc = "resumed" /\ variant = "proxy_a"
    /\ Apply(ProxyA_resume(upstream, calls[1].url))
    /\ UNCHANGED <<variant, apiKey, req, upstream, resHeaders>>

ProxyB_Resume ==
    /\ pc = "resumed" /\ variant = "proxy_b"
    /\ Apply(ProxyB_resume(upstream, calls[1].url))
    /\ UNCHANGED <<variant, apiKey, req, upstream, resHeaders>>

CheckCompat_Resume ==
    /\ pc = "resumed" /\ variant = "check_compat"
    /\ Apply(CheckCompat_resume(upstream, calls[1].url))
    /\ UNCHANGED <<variant, apiKey, req, upstream, resHeaders>>

Part0_Resume ==
    /\ pc = "resumed" /\ variant = "part0"
    /\ Apply(Part0_resume(upstream, calls[1].url))
    /\ UNCHANGED <<variant, apiKey, req, upstream, resHeaders>>

Part1A_Resume ==
    /\ pc = "resumed" /\ variant = "part1_a"
    /\ Apply(Part1A_resume(upstream, calls[1].url))
    /\ UNCHANGED <<variant, apiKey, req, upstream, resHeaders>>

Part1B_Resume ==
    /\ pc = "resumed" /\ variant = "part1_b"
    /\ \E urlInError \in BOOLEAN, emptyText \in BOOLEAN :
          Apply(Part1B_resume(upstream, calls[1].url, urlInError, emptyText))
    /\ UNCHANGED <<variant, apiKey, req, upstream, resHeaders>>

\* The invocation is over; the dispatcher may deliver the next request.
\* Nothing of an invocation is kept.
Return ==
    /\ pc = "done"
    /\ pc' = "idle"
    /\ req' = NoRequest
    /\ calls' = <<>>
    /\ upstream' = NoUpstream
    /\ responses' = <<>>
    /\ resHeaders' = {}
    /\ log' = <<>>
    /\ escaped' = FALSE
    /\ UNCHANGED <<variant, apiKey>>

Next ==
    \/ \E r \in Requests : Dispatch(r)
    \/ ProxyA_Handler
    \/ ProxyB_Handler
    \/ CheckCompat_Handler
    \/ Part0_Handler
    \/ Part1A_Handler
    \/ Part1B_Handler
    \/ \E i \in 1..Len(Upstreams) : UpstreamSettles(Upstreams[i])
    \/ ProxyA_Resume
    \/ ProxyB_Resume
    \/ CheckCompat_Resume
    \/ Part0_Resume
    \/ Part1A_Resume
    \/ Part1B_Resume
    \/ Return

Spec == Init /\ [][Next]_vars

----------------------------------------------------------------------------
(* The vocabulary of the claims, stated on requests, outcomes and responses *)
(* and not through the handlers' own checks.                                *)

HasText(v) == v.t = "str" /\ v.v # ""

Carries(body, k) == body.t = "obj" /\ k \in DOMAIN body.f

\* A contents list whose first entry has a first part with non-empty text.
WellFormedContents(c) ==
    /\ c.t = "arr" /\ Len(c.e) > 0
    /\ Carries(c.e[1], "parts")
    /\ LET parts == c.e[1].f.parts IN
          /\ parts.t = "arr" /\ Len(parts.e) > 0
          /\ Carries(parts.e[1], "text")
          /\ HasText(parts.e[1].f.text)

StructuredVariants == {"proxy_a", "proxy_b", "part1_a"}
PromptVariants == {"part0", "part1_b"}
\* The handlers that read request.json() instead of a parsed body.
ParsingVariants == {"proxy_a", "part0"}
\* The handlers that take the text out of the upstream body.
ExtractingVariants == {"proxy_a", "proxy_b", "check_compat", "part1_b"}

\* The request body carries the input the deployed handler requires.
InputPresent ==
    CASE variant \in StructuredVariants ->
           Carries(req.body, "contents") /\ WellFormedContents(req.body.f.contents)
      [] variant \in PromptVariants ->
           Carries(req.body, "prompt") /\ HasText(req.body.f.prompt)
      [] OTHER ->
           /\ Carries(req.body, "device1") /\ HasText(req.body.f.device1)
           /\ Carries(req.body, "device2") /\ HasText(req.body.f.device2)

\* The request's headers and body text can be read by the deployed handler.
Readable ==
    /\ variant \in ParsingVariants => req.jsonOk
    /\ variant = "part0" =>
          req.headersGet /\ req.contentType.t = "str"
                         /\ req.contentType.v = "application/json"

\* A POST request with a valid input.
ValidRequest == req.method = "POST" /\ Readable /\ InputPresent

\* The request body carries none of the input the deployed handler requires.
InputMissing ==
    CASE variant \in StructuredVariants -> ~Carries(req.body, "contents")
      [] variant \in PromptVariants -> ~Carries(req.body, "prompt")
      [] OTHER -> ~Carries(req.body, "device1") /\ ~Carries(req.body, "device2")

\* The request carries a contents field that is empty or malformed.
ContentsMalformed ==
    /\ Carries(req.body, "contents")
    /\ ~WellFormedContents(req.body.f.contents)

KeyAbsent == apiKey.t = "undef" \/ (apiKey.t = "str" /\ apiKey.v = "")
KeyConfigured == apiKey.t = "str" /\ apiKey.v # ""

\* The handler has run (to its suspension or to its end).
Entered == pc \in {"awaitUpstream", "resumed", "done"}

SuccessTexts == {UStr("X"), UStr("Y")}

\* The upstream call succeeded with the text x.
SucceededWith(x) ==
    /\ upstream.kind = "http"
    /\ upstream.status \in 200..299
    /\ upstream.isJson /\ upstream.json = Candidates(x)

\* The upstream answered 2xx with a JSON body without a non-empty text.
SucceededWithoutText ==
    /\ upstream.kind = "http"
    /\ upstream.status \in 200..299
    /\ upstream.isJson
    /\ \A x \in SuccessTexts : upstream.json # Candidates(x)

\* The upstream answered with an error status.
UpstreamErrored ==
    upstream.kind = "http" /\ upstream.status \notin 200..299

\* The text x can be read off a response body.
Recoverable(body, x) ==
    \/ /\ body.t = "obj"
       /\ \E k \in {"analysis", "content", "text"} : k \in DOMAIN body.f /\ body.f[k] = x
    \/ body = Candidates(x)

\* The messages with which the handlers say that the key is not configured.
NotConfiguredMessages ==
    { "API key is not configured. Please set the VITE_API_KEY environment variable in Vercel.",
      "Server configuration error: API key is not set. Please check the VITE_API_KEY environment variable in Vercel.",
      "Gemini API key is not configured.",
      "API key is not configured on the server.",
      "API key not configured",
      "API key not configured." }

\* Exactly one response was written, with this status.
RespondedOnce(status) == Len(responses) = 1 /\ responses[1].status = status

\* An exception was raised during the invocation: it escaped, or a catch block
\* logged it.
Raised ==
    escaped \/ \E i \in 1..Len(log) : log[i].arg.t = "exc"

----------------------------------------------------------------------------
(* The claims.                                                              *)

\* C1: in every handler, a valid POST request with the credential configured
\* and an upstream success whose first candidate's first part has the
\* non-empty text X is answered once, with 200 and a body from which X can be
\* read unchanged (as analysis, content or text, or as the upstream body).
C1_SuccessReturnsText ==
    \A x \in SuccessTexts :
        (pc = "done" /\ ValidRequest /\ KeyConfigured /\ SucceededWith(x))
            => /\ RespondedOnce(200)
               /\ Recoverable(responses[1].body, x)

\* C1 witness: a handler that extracts the text has answered such a call.
C1_Witness ==
    /\ pc = "done" /\ ValidRequest /\ KeyConfigured
    /\ SucceededWith(UStr("Y"))
    /\ variant = "proxy_b"
    /\ RespondedOnce(200)
    /\ responses[1].body = Obj([content |-> UStr("Y")])

\* C2: in every handler, when the credential is absent or empty, a valid
\* POST request is answered once, with 500 and { error: <key not configured> },
\* and no upstream call is issued at any point of the invocation.
C2_MissingKeyIs500 ==
    (Entered /\ KeyAbsent /\ ValidRequest)
        => /\ pc = "done"
           /\ calls = <<>>
           /\ RespondedOnce(500)
           /\ Carries(responses[1].body, "error")
           /\ responses[1].body.f.error.t = "str"
           /\ responses[1].body.f.error.v \in NotConfiguredMessages

\* C2 witness: a handler that parses the body first has refused a valid
\* request because the key is the empty string.
C2_Witness ==
    /\ pc = "done" /\ ValidRequest
    /\ apiKey.t = "str" /\ apiKey.v = ""
    /\ variant = "part0"
    /\ RespondedOnce(500)
    /\ calls = <<>>

\* C3: in every handler and every configuration state, a request whose
\* method is not POST (and not OPTIONS where the handler answers pre-flight)
\* is answered with 405 and no upstream call is issued.
C3_NonPostIs405 ==
    (Entered /\ req.method # "POST"
             /\ ~(variant = "part1_b" /\ req.method = "OPTIONS"))
        => /\ pc = "done"
           /\ calls = <<>>
           /\ RespondedOnce(405)

\* C4: in every handler, a POST request whose body carries none of the input
\* the handler requires (an absent body and an empty object included) is
\* answered with 400 and no upstream call is issued.  Stated for requests the
\* handler can read and with the credential configured.
C4_MissingInputIs400 ==
    (Entered /\ req.method = "POST" /\ KeyConfigured /\ InputMissing
             /\ (variant \in ParsingVariants /\ req.body.t # "undef" => req.jsonOk)
             /\ (variant = "part0" => req.headersGet))
        => /\ pc = "done"
           /\ calls = <<>>
           /\ RespondedOnce(400)

\* C5: in the handlers that take structured content, a POST request whose
\* contents field is present but empty or malformed is answered with 400,
\* never with 500 and never by sending the payload upstream.  Stated for
\* requests the handler can read and with the credential configured.
C5_MalformedContentsIs400 ==
    (Entered /\ variant \in StructuredVariants /\ req.method = "POST"
             /\ KeyConfigured /\ ContentsMalformed
             /\ (variant \in ParsingVariants => req.jsonOk))
        => /\ pc = "done"
           /\ calls = <<>>
           /\ RespondedOnce(400)

\* C6: in every handler, for a valid request with the credential configured,
\* an upstream answer with an error status is answered with that status or
\* 500, with success: false and a non-empty error or details field.
C6_UpstreamErrorShape ==
    (pc = "done" /\ ValidRequest /\ KeyConfigured /\ UpstreamErrored)
        => /\ Len(responses) = 1
           /\ responses[1].status \in {upstream.status, 500}
           /\ Carries(responses[1].body, "success")
           /\ responses[1].body.f.success = Bool(FALSE)
           /\ \E k \in {"error", "details"} :
                 Carries(responses[1].body, k) /\ HasText(responses[1].body.f[k])

\* C7: in the handlers that extract the text, a 2xx upstream answer whose
\* body has no non-empty first candidate text is answered with 500 and
\* { success: false, error: <failed to generate> }, never with 200.
C7_MalformedUpstreamIs500 ==
    (pc = "done" /\ variant \in ExtractingVariants /\ ValidRequest
                 /\ KeyConfigured /\ SucceededWithoutText)
        => /\ RespondedOnce(500)
           /\ Carries(responses[1].body, "success")
           /\ responses[1].body.f.success = Bool(FALSE)
           /\ Carries(responses[1].body, "error")
           /\ HasText(responses[1].body.f.error)

\* C8: in every handler, a failure raised at any stage does not escape the
\* handler: it is answered with 500 and a body that carries a fixed message
\* and no text of the exception.
C8_FailuresAreGeneric500 ==
    (pc = "done" /\ Raised)
        => /\ ~escaped
           /\ RespondedOnce(500)
           /\ ~HasExcText(responses[1].body)

\* C9: on every path of every handler, no response body and no log line
\* holds the credential or a string built from it.
C9_NoCredentialLeak ==
    /\ \A i \in 1..Len(responses) : ~HasSecret(responses[i].body)
    /\ \A i \in 1..Len(log) : ~HasSecret(log[i].text) /\ ~HasSecret(log[i].arg)

\* C10: every invocation issues at most one upstream call and, once it is
\* over, has written exactly one response.
C10_OneCallOneResponse ==
    /\ Len(calls) <= 1
    /\ Len(responses) <= 1
    /\ pc = "done" => Len(responses) = 1

====
